---- MODULE Spec2Model ----
(***************************************************************************)
(* Model of dashboard/server.py: the benchmark dashboard HTTP server.      *)
(*                                                                         *)
(* Text is modelled as sequences of one-character strings, so that the     *)
(* parsing the handlers do (strip, split, substring tests, float()) is     *)
(* computed the way Python computes it.                                    *)
(***************************************************************************)
EXTENDS Integers, Sequences, FiniteSets, TLC

(***************************************************************************)
(* Bounds of the model.                                                    *)
(***************************************************************************)
MaxReqs == 2        \* connections a behaviour may open
MaxLines == 2       \* lines in the results file
MaxCpuLines == 2    \* lines in the CPU descriptor

(***************************************************************************)
(* Python string operations.                                               *)
(***************************************************************************)
Whitespace == {" ", "\n"}

Digits == {"0", "1", "2", "3", "4", "5", "6", "7", "8", "9"}

DigitVal(c) ==
    CASE c = "0" -> 0 [] c = "1" -> 1 [] c = "2" -> 2 [] c = "3" -> 3
      [] c = "4" -> 4 [] c = "5" -> 5 [] c = "6" -> 6 [] c = "7" -> 7
      [] c = "8" -> 8 [] c = "9" -> 9

\* str.lower() on one character
LowerChar(c) ==
    CASE c = "A" -> "a" [] c = "B" -> "b" [] c = "C" -> "c" [] c = "D" -> "d"
      [] c = "E" -> "e" [] c = "F" -> "f" [] c = "G" -> "g" [] c = "H" -> "h"
      [] c = "I" -> "i" [] c = "J" -> "j" [] c = "K" -> "k" [] c = "L" -> "l"
      [] c = "M" -> "m" [] c = "N" -> "n" [] c = "O" -> "o" [] c = "P" -> "p"
      [] c = "Q" -> "q" [] c = "R" -> "r" [] c = "S" -> "s" [] c = "T" -> "t"
      [] c = "U" -> "u" [] c = "V" -> "v" [] c = "W" -> "w" [] c = "X" -> "x"
      [] c = "Y" -> "y" [] c = "Z" -> "z"
      [] OTHER -> c

\* str.lower()
Lower(s) == [i \in 1..Len(s) |-> LowerChar(s[i])]

\* s.startswith(p)
StartsWith(s, p) == Len(p) <= Len(s) /\ SubSeq(s, 1, Len(p)) = p

\* sub in s
Contains(s, sub) ==
    \E i \in 1..(Len(s) - Len(sub) + 1) : SubSeq(s, i, i + Len(sub) - 1) = sub

RECURSIVE LStrip(_)
LStrip(s) == IF s # << >> /\ Head(s) \in Whitespace THEN LStrip(Tail(s)) ELSE s

RECURSIVE RStrip(_)
RStrip(s) ==
    IF s # << >> /\ s[Len(s)] \in Whitespace
    THEN RStrip(SubSeq(s, 1, Len(s) - 1))
    ELSE s

\* str.strip()
Strip(s) == RStrip(LStrip(s))

\* str.split(sep) for a one-character separator: always at least one part
RECURSIVE SplitAcc(_, _, _)
SplitAcc(s, sep, cur) ==
    IF s = << >> THEN << cur >>
    ELSE IF Head(s) = sep THEN << cur >> \o SplitAcc(Tail(s), sep, << >>)
    ELSE SplitAcc(Tail(s), sep, Append(cur, Head(s)))

Split(s, sep) == SplitAcc(s, sep, << >>)

\* str.split() with no argument: runs of whitespace separate, no empty parts
RECURSIVE SplitWSAcc(_, _)
SplitWSAcc(s, cur) ==
    IF s = << >> THEN (IF cur = << >> THEN << >> ELSE << cur >>)
    ELSE IF Head(s) \in Whitespace
         THEN (IF cur = << >> THEN << >> ELSE << cur >>) \o SplitWSAcc(Tail(s), << >>)
         ELSE SplitWSAcc(Tail(s), Append(cur, Head(s)))

SplitWS(s) == SplitWSAcc(s, << >>)

(***************************************************************************)
(* float(token) for the decimal literals digits[.digits]; a value is       *)
(* <<mantissa, number of fraction digits>> with trailing fraction zeros    *)
(* removed, so "2.50" and "2.5" are the same number and "01" is 1.         *)
(***************************************************************************)
RECURSIVE DigitsVal(_, _)
DigitsVal(s, acc) ==
    IF s = << >> THEN acc ELSE DigitsVal(Tail(s), 10 * acc + DigitVal(Head(s)))

RECURSIVE Normalize(_, _)
Normalize(m, e) == IF e > 0 /\ m % 10 = 0 THEN Normalize(m \div 10, e - 1) ELSE << m, e >>

\* whether float(tok) succeeds (otherwise it raises ValueError)
IsFloat(tok) ==
    /\ \A i \in 1..Len(tok) : tok[i] \in Digits \cup {"."}
    /\ Cardinality({i \in 1..Len(tok) : tok[i] = "."}) <= 1
    /\ \E i \in 1..Len(tok) : tok[i] \in Digits

Float(tok) ==
    LET parts == Split(tok, ".")
        frac == IF Len(parts) > 1 THEN parts[2] ELSE << >>
    IN  Normalize(DigitsVal(parts[1] \o frac, 0), Len(frac))

(***************************************************************************)
(* The text the handlers look for.                                         *)
(***************************************************************************)
GFLOPS == << "G", "F", "L", "O", "P", "S" >>

ModelName == << "m", "o", "d", "e", "l", " ", "n", "a", "m", "e" >>

Processor == << "p", "r", "o", "c", "e", "s", "s", "o", "r" >>

(***************************************************************************)
(* The filesystem the handlers read: the results summary, /proc/cpuinfo    *)
(* and the benchmark script.                                               *)
(***************************************************************************)
Small == << "s", "m", "a", "l", "l" >>

Micro == << "m", "i", "c", "r", "o" >>

Target == << "(", "t", "a", "r", "g", "e", "t", ")" >>

Bogus == << "b", "o", "g", "u", "s", " ", "l", "i", "n", "e" >>

\* the lines a results file is made of
ResultLines ==
    { Small \o << ":", " ", "2", ".", "5", "9", " " >> \o GFLOPS \o << " " >> \o Target,
      Bogus,
      Small \o << ":", " ", "3", ".", "5", " " >> \o GFLOPS,
      << " " >> \o Micro \o << " ", ":", "4", ".", "5", "0", " " >> \o GFLOPS,
      GFLOPS \o << " " >> \o Small \o << ":" >>,
      << "a", ":", "b", ":", " ", "3", " " >> \o GFLOPS,
      Small \o << ":", "7", ":" >> \o GFLOPS,
      Small \o << ":", " ", "2", ".", "5", "9" >>,
      Small \o << " ", "2", ".", "5", "9", " " >> \o GFLOPS,
      GFLOPS \o << ":", "1" >>,
      << ":" >> \o GFLOPS,
      << ":", " ", "1", ".", " " >> \o GFLOPS,
      << >> }

RECURSIVE SeqsUpTo(_, _)
SeqsUpTo(S, n) ==
    IF n = 0 THEN { << >> }
    ELSE SeqsUpTo(S, n - 1) \cup { Append(f, x) : f \in SeqsUpTo(S, n - 1), x \in S }

NoFile == [exists |-> FALSE, lines |-> << >>]

ResultsFiles ==
    { NoFile } \cup { [exists |-> TRUE, lines |-> ls] : ls \in SeqsUpTo(ResultLines, MaxLines) }

(***************************************************************************)
(* get_benchmark_data                                                      *)
(***************************************************************************)
\* the fixed optimization records, numbers as Float values
Optimizations ==
    << [rank |-> 1, gflops |-> << 456, 2 >>, time |-> << 0, 0 >>,
        opt |-> "-O2", march |-> "Autodetect", size |-> "micro"],
       [rank |-> 2, gflops |-> << 45, 1 >>, time |-> << 0, 0 >>,
        opt |-> "-O3", march |-> "None", size |-> "micro"],
       [rank |-> 3, gflops |-> << 259, 2 >>, time |-> << 104, 3 >>,
        opt |-> "-O3", march |-> "V2", size |-> "small"] >>

Timestamp == "time.time()"

\* the lines "for line in f" yields: each keeps its newline
FileLine(content) == content \o << "\n" >>

\* a variant that forgets the GFLOPS test
LineSelectedColonOnly(line) == Contains(line, << ":" >>)

\* if ':' in line and 'GFLOPS' in line
LineSelected(line) == Contains(line, << ":" >>) /\ Contains(line, GFLOPS)

\* parts = line.strip().split(':')
LineParts(line) == Split(Strip(line), ":")

\* size = parts[0].strip()
LineSize(line) == Strip(LineParts(line)[1])

\* parts[1].strip().split(), the tokens gflops_part is taken from
LineTokens(line) == SplitWS(Strip(LineParts(line)[2]))

\* the exception the body of the loop raises on a selected line, or "none"
LineException(line) ==
    IF LineTokens(line) = << >> THEN "IndexError"
    ELSE IF ~IsFloat(LineTokens(line)[1]) THEN "ValueError"
    ELSE "none"

\* data['baseline'][size] = float(gflops_part)
SetItem(m, k, v) == [x \in DOMAIN m \cup {k} |-> IF x = k THEN v ELSE m[x]]

RECURSIVE LoadBaseline(_, _)
LoadBaseline(lines, baseline) ==
    IF lines = << >> THEN [exc |-> "none", baseline |-> baseline]
    ELSE LET line == FileLine(Head(lines))
         IN  IF ~LineSelected(line) THEN LoadBaseline(Tail(lines), baseline)
             ELSE IF LineException(line) # "none"
                  THEN [exc |-> LineException(line), baseline |-> baseline]
                  ELSE LoadBaseline(Tail(lines),
                           SetItem(baseline, LineSize(line), Float(LineTokens(line)[1])))

\* a variant that reports optimizations only when results were loaded
get_benchmark_data_from_disk(file) ==
    LET loaded == IF file.exists THEN LoadBaseline(file.lines, << >>)
                  ELSE [exc |-> "none", baseline |-> << >>]
    IN  [exc |-> loaded.exc,
         data |-> [baseline |-> loaded.baseline,
                   optimizations |-> IF file.exists THEN Optimizations ELSE << >>,
                   timestamp |-> Timestamp]]

\* the value get_benchmark_data returns, or the exception it raises
get_benchmark_data(file) ==
    LET loaded == IF file.exists THEN LoadBaseline(file.lines, << >>)
                  ELSE [exc |-> "none", baseline |-> << >>]
    IN  [exc |-> loaded.exc,
         data |-> [baseline |-> loaded.baseline,
                   optimizations |-> Optimizations,
                   timestamp |-> Timestamp]]

(***************************************************************************)
(* get_system_info                                                         *)
(***************************************************************************)
NeoverseSystem ==
    << "N", "e", "o", "v", "e", "r", "s", "e", " ", "S", "y", "s", "t", "e", "m" >>

FallbackCores == 16

Unknown == << "U", "n", "k", "n", "o", "w", "n" >>

NeoverseN1 == << "N", "e", "o", "v", "e", "r", "s", "e", "-", "N", "1" >>

CortexA72 == << "C", "o", "r", "t", "e", "x", "-", "A", "7", "2" >>

CpuLines ==
    { Processor \o << " ", ":", " ", "0" >>,
      ModelName \o << " ", ":", " " >> \o NeoverseN1,
      << "M", "o", "d", "e", "l", " ", "N", "a", "m", "e", ":" >> \o CortexA72 \o << ":", "r", "1" >>,
      ModelName,
      << "B", "o", "g", "o", "M", "I", "P", "S", ":", "5", "0" >>,
      << >> }

\* the text of the file: every line ends with a newline
RECURSIVE JoinLines(_)
JoinLines(ls) == IF ls = << >> THEN << >> ELSE Head(ls) \o << "\n" >> \o JoinLines(Tail(ls))

Unreadable == [readable |-> FALSE, text |-> << >>]

CpuInfos ==
    { Unreadable } \cup
    { [readable |-> TRUE, text |-> JoinLines(ls)] : ls \in SeqsUpTo(CpuLines, MaxCpuLines) }

\* a variant that keeps the first "model name" line
RECURSIVE ScanCpuinfoFirst(_, _, _)
ScanCpuinfoFirst(lines, processor, cores) ==
    IF lines = << >> THEN [exc |-> "none", processor |-> processor, cores |-> cores]
    ELSE LET line == Head(lines)
         IN  IF Contains(Lower(line), ModelName)
             THEN IF Len(Split(line, ":")) < 2
                  THEN [exc |-> "IndexError", processor |-> processor, cores |-> cores]
                  ELSE ScanCpuinfoFirst(Tail(lines),
                           IF processor = Unknown THEN Strip(Split(line, ":")[2])
                           ELSE processor,
                           cores)
             ELSE IF StartsWith(line, Processor)
                  THEN ScanCpuinfoFirst(Tail(lines), processor, cores + 1)
                  ELSE ScanCpuinfoFirst(Tail(lines), processor, cores)

\* the loop over cpuinfo.split('\n'); exc is the exception a line raised
RECURSIVE ScanCpuinfo(_, _, _)
ScanCpuinfo(lines, processor, cores) ==
    IF lines = << >> THEN [exc |-> "none", processor |-> processor, cores |-> cores]
    ELSE LET line == Head(lines)
         IN  IF Contains(Lower(line), ModelName)
             THEN IF Len(Split(line, ":")) < 2
                  THEN [exc |-> "IndexError", processor |-> processor, cores |-> cores]
                  ELSE ScanCpuinfo(Tail(lines), Strip(Split(line, ":")[2]), cores)
             ELSE IF StartsWith(line, Processor)
                  THEN ScanCpuinfo(Tail(lines), processor, cores + 1)
                  ELSE ScanCpuinfo(Tail(lines), processor, cores)

\* the body of the try block: the exception it raises, or its value
SystemInfoTry(cpu) ==
    IF ~cpu.readable THEN [exc |-> "OSError", processor |-> Unknown, cores |-> 0]
    ELSE ScanCpuinfo(Split(cpu.text, "\n"), Unknown, 0)

\* a variant that falls back only when the open fails, and otherwise
\* returns what the scan had found
get_system_info_narrow_except(cpu) ==
    LET t == SystemInfoTry(cpu)
    IN  IF t.exc = "OSError"
        THEN [processor |-> NeoverseSystem, cores |-> FallbackCores]
        ELSE [processor |-> t.processor, cores |-> t.cores, timestamp |-> Timestamp]

\* the object get_system_info returns: the bare except turns every
\* exception into the fallback, which has no timestamp
get_system_info(cpu) ==
    LET t == SystemInfoTry(cpu)
    IN  IF t.exc # "none"
        THEN [processor |-> NeoverseSystem, cores |-> FallbackCores]
        ELSE [processor |-> t.processor, cores |-> t.cores, timestamp |-> Timestamp]

(***************************************************************************)
(* Requests.  A body is a sequence of JSON tokens; json.loads is computed  *)
(* on it for the documents the inputs contain.                             *)
(***************************************************************************)
Punct(c) == [t |-> c, v |-> ""]

Str(v) == [t |-> "str", v |-> v]

EmptyBody == << >>

Bodies ==
    { EmptyBody,
      << Punct("junk") >>,
      << Punct("["), Punct("]") >>,
      << Punct("{"), Punct("}") >>,
      << Punct("{"), Str("type"), Punct(":"), Str("custom"), Punct("}") >>,
      << Punct("{"), Str("type"), Punct(":"), Str("baseline"), Punct("}") >>,
      << Punct("{"), Str("size"), Punct(":"), Str("custom"), Punct("}") >> }

\* json.loads(post_data.decode('utf-8')): the value, or ok = FALSE when it
\* raises JSONDecodeError.  An object is its set of <<key, value>> pairs.
JsonLoads(body) ==
    IF Len(body) = 1 /\ body[1].t = "str"
    THEN [ok |-> TRUE, kind |-> "string", members |-> {}]
    ELSE IF Len(body) = 2 /\ body[1].t = "[" /\ body[2].t = "]"
    THEN [ok |-> TRUE, kind |-> "array", members |-> {}]
    ELSE IF Len(body) = 2 /\ body[1].t = "{" /\ body[2].t = "}"
    THEN [ok |-> TRUE, kind |-> "object", members |-> {}]
    ELSE IF /\ Len(body) = 5
            /\ body[1].t = "{" /\ body[2].t = "str" /\ body[3].t = ":"
            /\ body[4].t = "str" /\ body[5].t = "}"
    THEN [ok |-> TRUE, kind |-> "object", members |-> { << body[2].v, body[4].v >> }]
    ELSE [ok |-> FALSE, kind |-> "none", members |-> {}]

\* data.get(key, default) on a parsed object
DictGet(value, key, default) ==
    IF \E m \in value.members : m[1] = key
    THEN (CHOOSE m \in value.members : m[1] = key)[2]
    ELSE default

RunBenchmarkPath == "/api/run-benchmark"

\* files under the document root
DocumentRoot == { "/index.html" }

GetRequests ==
    { [method |-> "GET", path |-> p, hasLength |-> FALSE, body |-> EmptyBody] :
        p \in { "/api/data", "/api/system", "/index.html", "/missing" } }

PostRequests ==
    { [method |-> "POST", path |-> RunBenchmarkPath, hasLength |-> TRUE, body |-> b] :
        b \in Bodies }
    \cup { [method |-> "POST", path |-> RunBenchmarkPath, hasLength |-> FALSE,
            body |-> EmptyBody],
           [method |-> "POST", path |-> "/api/data", hasLength |-> FALSE,
            body |-> EmptyBody] }

Requests == GetRequests \cup PostRequests

NoRequest == [method |-> "none", path |-> "", hasLength |-> FALSE, body |-> EmptyBody]

Reqs == 1..MaxReqs

(***************************************************************************)
(* State.                                                                  *)
(***************************************************************************)
VARIABLES
    resultsFile,    \* results/baseline_summary.txt
    cpuinfo,        \* /proc/cpuinfo
    scriptExists,   \* whether scripts/03/run-baseline.sh exists
    req,            \* the request each connection carries
    nconn,          \* connections opened so far
    bodySent,       \* whether the client has sent the request body
    backlog,        \* connections waiting in the listen queue
    cur,            \* the connection the server is handling, 0 when none
    pc,             \* where the handler of cur is
    resp,           \* what each client got back
    thread,         \* the run_async thread of each request
    launched        \* the commands subprocess.run started for each request

vars == << resultsFile, cpuinfo, scriptExists, req, nconn, bodySent, backlog,
           cur, pc, resp, thread, launched >>

files == << resultsFile, cpuinfo, scriptExists >>

NoResponse == [kind |-> "none"]

\* the handler raised: socketserver prints the traceback and closes the
\* connection, the client gets no HTTP response
Closed == [kind |-> "closed"]

\* send_api_response(data)
ApiResponse(data) ==
    [kind |-> "http", code |-> 200, ctype |-> "application/json", cors |-> "*",
     body |-> data]

\* send_error(404)
NotFound == [kind |-> "http", code |-> 404, ctype |-> "text/html", cors |-> "",
             body |-> [error |-> "Not Found"]]

\* SimpleHTTPRequestHandler.do_GET
StaticResponse(path) ==
    IF path \in DocumentRoot
    THEN [kind |-> "http", code |-> 200, ctype |-> "text/html", cors |-> "",
          body |-> [file |-> path]]
    ELSE NotFound

ScriptCommand == << "bash", "scripts/03/run-baseline.sh" >>

InitServer ==
    /\ req = [r \in Reqs |-> NoRequest]
    /\ nconn = 0
    /\ bodySent = [r \in Reqs |-> FALSE]
    /\ backlog = << >>
    /\ cur = 0
    /\ pc = "idle"
    /\ resp = [r \in Reqs |-> NoResponse]
    /\ thread = [r \in Reqs |-> "none"]
    /\ launched = [r \in Reqs |-> << >>]

(***************************************************************************)
(* Clients.                                                                *)
(***************************************************************************)
\* a client connects and sends its request line and headers
Connect(kinds) ==
    /\ nconn < MaxReqs
    /\ \E q \in kinds :
         /\ req' = [req EXCEPT ![nconn + 1] = q]
         /\ bodySent' = [bodySent EXCEPT ![nconn + 1] = (q.body = EmptyBody)]
    /\ nconn' = nconn + 1
    /\ backlog' = Append(backlog, nconn + 1)
    /\ UNCHANGED << files, cur, pc, resp, thread, launched >>

\* a client sends the body its Content-Length announced
SendBody(r) ==
    /\ r <= nconn
    /\ ~bodySent[r]
    /\ bodySent' = [bodySent EXCEPT ![r] = TRUE]
    /\ UNCHANGED << files, req, nconn, backlog, cur, pc, resp, thread, launched >>

(***************************************************************************)
(* The server: socketserver.TCPServer.serve_forever takes one connection   *)
(* at a time and runs its handler to the end before the next accept.       *)
(***************************************************************************)
CanAccept == cur = 0

Accept ==
    /\ backlog # << >>
    /\ CanAccept
    /\ cur' = Head(backlog)
    /\ backlog' = Tail(backlog)
    /\ pc' = "handle"
    /\ UNCHANGED << files, req, nconn, bodySent, resp, thread, launched >>

\* the handler returns, or raises, and the server goes back to accept
Finish(r, response) ==
    /\ resp' = [resp EXCEPT ![r] = response]
    /\ cur' = 0
    /\ pc' = "idle"

GetResponse(path) ==
    IF path = "/api/data"
    THEN LET d == get_benchmark_data(resultsFile)
         IN  IF d.exc # "none" THEN Closed ELSE ApiResponse(d.data)
    ELSE IF path = "/api/system"
    THEN ApiResponse(get_system_info(cpuinfo))
    ELSE StaticResponse(path)

do_GET(r) ==
    /\ cur = r /\ pc = "handle" /\ req[r].method = "GET"
    /\ Finish(r, GetResponse(req[r].path))
    /\ UNCHANGED << files, req, nconn, bodySent, backlog, thread, launched >>

\* do_POST up to self.rfile.read(content_length)
do_POST(r) ==
    /\ cur = r /\ pc = "handle" /\ req[r].method = "POST"
    /\ IF req[r].path # RunBenchmarkPath
       THEN Finish(r, NotFound)
       ELSE IF ~req[r].hasLength
       THEN Finish(r, Closed)      \* int(None) raises TypeError
       ELSE /\ pc' = "read"
            /\ UNCHANGED << cur, resp >>
    /\ UNCHANGED << files, req, nconn, bodySent, backlog, thread, launched >>

\* a variant that waits until no benchmark is running
run_benchmark_one_at_a_time(r, benchmark_type) ==
    /\ \A q \in Reqs : thread[q] # "child"
    /\ thread' = [thread EXCEPT ![r] = "started"]
    /\ Finish(r, ApiResponse([status |-> "started", type |-> benchmark_type]))

\* a variant that joins the thread before it returns
run_benchmark_join(r, benchmark_type) ==
    IF thread[r] = "none"
    THEN /\ thread' = [thread EXCEPT ![r] = "started"]
         /\ UNCHANGED << cur, pc, resp >>
    ELSE /\ thread[r] \in { "done", "failed" }
         /\ Finish(r, ApiResponse([status |-> "started", type |-> benchmark_type]))
         /\ UNCHANGED thread

\* run_benchmark(benchmark_type): start the thread, return the acknowledgement
run_benchmark(r, benchmark_type) ==
    /\ thread' = [thread EXCEPT ![r] = "started"]
    /\ Finish(r, ApiResponse([status |-> "started", type |-> benchmark_type]))

\* do_POST from the return of self.rfile.read(content_length)
do_POST_body(r) ==
    /\ cur = r /\ pc = "read"
    /\ bodySent[r]
    /\ LET data == JsonLoads(req[r].body)
       IN  IF ~data.ok \/ data.kind # "object"
           THEN /\ Finish(r, Closed)   \* JSONDecodeError, or no attribute 'get'
                /\ UNCHANGED thread
           ELSE run_benchmark(r, DictGet(data, "type", "baseline"))
    /\ UNCHANGED << files, req, nconn, bodySent, backlog, launched >>

(***************************************************************************)
(* run_async, the daemon thread of one request.                            *)
(***************************************************************************)
\* a variant that does not test script_path.exists()
LaunchUnchecked(r) ==
    /\ launched' = [launched EXCEPT ![r] = Append(@, ScriptCommand)]
    /\ thread' = [thread EXCEPT ![r] = "child"]

\* if script_path.exists(): subprocess.run(['bash', str(script_path)], ...)
Launch(r) ==
    IF scriptExists
    THEN /\ launched' = [launched EXCEPT ![r] = Append(@, ScriptCommand)]
         /\ thread' = [thread EXCEPT ![r] = "child"]
    ELSE /\ thread' = [thread EXCEPT ![r] = "done"]
         /\ UNCHANGED launched

run_async(r) ==
    /\ thread[r] = "started"
    /\ Launch(r)
    /\ UNCHANGED << files, req, nconn, bodySent, backlog, cur, pc, resp >>

\* the child exits; check=True raises on a non-zero code, which is printed
ChildExit(r) ==
    /\ thread[r] = "child"
    /\ \E code \in {0, 1} :
         thread' = [thread EXCEPT ![r] = IF code = 0 THEN "done" ELSE "failed"]
    /\ UNCHANGED << files, req, nconn, bodySent, backlog, cur, pc, resp, launched >>

(***************************************************************************)
(* Specifications.                                                         *)
(***************************************************************************)
SampleFile == [exists |-> TRUE, lines |-> << Small \o << ":", "1", " " >> \o GFLOPS >>]

SampleCpu == [readable |-> TRUE, text |-> JoinLines(<< Processor \o << ":", "0" >> >>)]

Init ==
    /\ resultsFile \in { NoFile, SampleFile }
    /\ cpuinfo \in { Unreadable, SampleCpu }
    /\ scriptExists \in BOOLEAN
    /\ InitServer

ConnectAny == Connect(Requests)

Next ==
    \/ ConnectAny
    \/ \E r \in Reqs : SendBody(r)
    \/ Accept
    \/ \E r \in Reqs : do_GET(r)
    \/ \E r \in Reqs : do_POST(r)
    \/ \E r \in Reqs : do_POST_body(r)
    \/ \E r \in Reqs : run_async(r)
    \/ \E r \in Reqs : ChildExit(r)

Spec == Init /\ [][Next]_vars

\* the server's scheduling runs an enabled handler step; a client sends the
\* body it announced; nothing makes a thread run or a child exit
Fairness ==
    /\ WF_vars(Accept)
    /\ \A r \in Reqs : WF_vars(SendBody(r))
    /\ \A r \in Reqs : WF_vars(do_GET(r))
    /\ \A r \in Reqs : WF_vars(do_POST(r))
    /\ \A r \in Reqs : WF_vars(do_POST_body(r))

\* the trigger reads neither the results file nor the CPU descriptor
InitFair ==
    /\ resultsFile = NoFile
    /\ cpuinfo = Unreadable
    /\ scriptExists \in BOOLEAN
    /\ InitServer

FairSpec == InitFair /\ [][Next]_vars /\ Fairness

\* GET /api/data over every results file
DataRequests == { q \in GetRequests : q.path = "/api/data" }

InitData ==
    /\ resultsFile \in ResultsFiles
    /\ cpuinfo = Unreadable
    /\ scriptExists = FALSE
    /\ InitServer

ConnectData == Connect(DataRequests)

NextData ==
    \/ ConnectData
    \/ Accept
    \/ \E r \in Reqs : do_GET(r)

SpecData == InitData /\ [][NextData]_vars

\* GET /api/system over every CPU descriptor
SystemRequests == { q \in GetRequests : q.path = "/api/system" }

InitSystem ==
    /\ resultsFile = NoFile
    /\ cpuinfo \in CpuInfos
    /\ scriptExists = FALSE
    /\ InitServer

ConnectSystem == Connect(SystemRequests)

NextSystem ==
    \/ ConnectSystem
    \/ Accept
    \/ \E r \in Reqs : do_GET(r)

SpecSystem == InitSystem /\ [][NextSystem]_vars

(***************************************************************************)
(* Properties of GET /api/data.                                            *)
(***************************************************************************)
IsDataRequest(r) == req[r].method = "GET" /\ req[r].path = "/api/data"

\* the handler of r has ended
Ended(r) == resp[r] # NoResponse

Answered(r) == resp[r].kind = "http"

\* the shape "<label>: <float> GFLOPS ...", read off the line itself: the
\* label is the text before the first colon, the value the first token after
FirstColon(line) == CHOOSE i \in 1..Len(line) :
                        line[i] = ":" /\ \A j \in 1..(i - 1) : line[j] # ":"

HasColon(line) == \E i \in 1..Len(line) : line[i] = ":"

LabelOf(line) == Strip(SubSeq(line, 1, FirstColon(line) - 1))

TokensAfterColon(line) == SplitWS(SubSeq(line, FirstColon(line) + 1, Len(line)))

WellFormed(line) ==
    /\ HasColon(line)
    /\ Len(TokensAfterColon(line)) >= 2
    /\ IsFloat(TokensAfterColon(line)[1])
    /\ TokensAfterColon(line)[2] = GFLOPS

ValueOf(line) == Float(TokensAfterColon(line)[1])

HasBoth(line) == HasColon(line) /\ Contains(line, GFLOPS)

FileLines == resultsFile.lines

\* every key of the mapping comes from a line with a colon and GFLOPS
KeysFromSelectedLines(baseline) ==
    \A k \in DOMAIN baseline :
        \E i \in 1..Len(FileLines) : HasBoth(FileLines[i]) /\ LabelOf(FileLines[i]) = k

\* C3: GET /api/data has no error path: whatever the results file holds,
\* the request ends with a 200 JSON response, never with an exception.
C3_DataNeverFails ==
    \A r \in Reqs :
        IsDataRequest(r) /\ Ended(r) =>
            Answered(r) /\ resp[r].code = 200 /\ resp[r].ctype = "application/json"

\* C4 as stated: the returned baseline maps the label of every well-formed
\* line to its value, and no key comes from a line without colon or GFLOPS.
C4_EveryWellFormedLine ==
    \A r \in Reqs :
        IsDataRequest(r) /\ Answered(r) =>
            LET baseline == resp[r].body.baseline
            IN  /\ \A i \in 1..Len(FileLines) :
                      WellFormed(FileLines[i]) =>
                          /\ LabelOf(FileLines[i]) \in DOMAIN baseline
                          /\ baseline[LabelOf(FileLines[i])] = ValueOf(FileLines[i])
                /\ KeysFromSelectedLines(baseline)

\* C4 amended: the returned baseline maps the label of a well-formed line to
\* its value unless a later line with a colon and GFLOPS has the same label
\* (the last such line sets the value), and no key comes from a line
\* without colon or GFLOPS.
C4_LastLineWins ==
    \A r \in Reqs :
        IsDataRequest(r) /\ Answered(r) =>
            LET baseline == resp[r].body.baseline
            IN  /\ \A i \in 1..Len(FileLines) :
                      /\ WellFormed(FileLines[i])
                      /\ \A j \in (i + 1)..Len(FileLines) :
                             ~(HasBoth(FileLines[j])
                               /\ LabelOf(FileLines[j]) = LabelOf(FileLines[i]))
                      => /\ LabelOf(FileLines[i]) \in DOMAIN baseline
                         /\ baseline[LabelOf(FileLines[i])] = ValueOf(FileLines[i])
                /\ KeysFromSelectedLines(baseline)

\* the example of the specification: "small: 2.59 GFLOPS (target)" and
\* "bogus line" give {"small": 2.59}
C4_Witness ==
    \E r \in Reqs :
        /\ IsDataRequest(r) /\ Answered(r)
        /\ Len(FileLines) = 2
        /\ WellFormed(FileLines[1]) /\ ~HasColon(FileLines[2])
        /\ FileLines[2] = Bogus
        /\ DOMAIN resp[r].body.baseline = { Small }
        /\ resp[r].body.baseline[Small] = << 259, 2 >>

\* C5: with no results file the baseline is empty and the request is
\* answered, and every answer carries the same three optimization records,
\* ranks 1, 2, 3 in that order, whatever the file holds.
C5_FixedOptimizations ==
    \A r \in Reqs :
        IsDataRequest(r) =>
            /\ Answered(r) =>
                 /\ Len(resp[r].body.optimizations) = 3
                 /\ \A i \in 1..3 : resp[r].body.optimizations[i].rank = i
                 /\ resp[r].body.optimizations = Optimizations
            /\ Ended(r) /\ ~resultsFile.exists =>
                 /\ Answered(r) /\ resp[r].code = 200
                 /\ DOMAIN resp[r].body.baseline = {}

C5_Witness ==
    \E r \in Reqs :
        /\ IsDataRequest(r) /\ Answered(r)
        /\ ~resultsFile.exists
        /\ DOMAIN resp[r].body.baseline = {}
        /\ Len(resp[r].body.optimizations) = 3

(***************************************************************************)
(* Properties of GET /api/system.                                          *)
(***************************************************************************)
IsSystemRequest(r) == req[r].method = "GET" /\ req[r].path = "/api/system"

\* the lines of the descriptor, read off its text: the characters between
\* consecutive newlines
NewlineAt == { i \in 1..Len(cpuinfo.text) : cpuinfo.text[i] = "\n" }

LineStart(i) ==
    IF \E j \in NewlineAt : j < i
    THEN 1 + CHOOSE j \in NewlineAt : j < i /\ \A k \in NewlineAt : k < i => k <= j
    ELSE 1

CpuLineEnds == NewlineAt \cup { Len(cpuinfo.text) + 1 }

CpuLineEndingAt(i) == SubSeq(cpuinfo.text, LineStart(i), i - 1)

IsModelNameLine(line) == Contains(Lower(line), ModelName)

\* the ends of the lines that mention "model name", in file order
ModelNameEnds == { i \in CpuLineEnds : IsModelNameLine(CpuLineEndingAt(i)) }

FirstModelNameLine ==
    CpuLineEndingAt(CHOOSE i \in ModelNameEnds : \A j \in ModelNameEnds : i <= j)

LastModelNameLine ==
    CpuLineEndingAt(CHOOSE i \in ModelNameEnds : \A j \in ModelNameEnds : j <= i)

\* the text after the first colon of a line
AfterFirstColon(line) == SubSeq(line, FirstColon(line) + 1, Len(line))

\* the text between the first colon and the next one, or the end of the line
UpToNextColon(text) ==
    IF HasColon(text) THEN SubSeq(text, 1, FirstColon(text) - 1) ELSE text

CoreLines ==
    { i \in CpuLineEnds :
        /\ StartsWith(CpuLineEndingAt(i), Processor)
        /\ ~IsModelNameLine(CpuLineEndingAt(i)) }

Fallback == [processor |-> NeoverseSystem, cores |-> FallbackCores]

Parseable ==
    /\ cpuinfo.readable
    /\ \A i \in ModelNameEnds : HasColon(CpuLineEndingAt(i))

IsString(x) == DOMAIN x = 1..Len(x)

\* C6: GET /api/system is always answered with an object holding a
\* processor string and a cores integer >= 0: the parsed values when the
\* descriptor is readable and every "model name" line has a colon, and
\* otherwise exactly the fallback "Neoverse System", 16.
C6_SystemInfoOrFallback ==
    \A r \in Reqs :
        IsSystemRequest(r) /\ Ended(r) =>
            /\ Answered(r) /\ resp[r].code = 200
            /\ IsString(resp[r].body.processor)
            /\ resp[r].body.cores \in Nat
            /\ IF Parseable
               THEN /\ resp[r].body.cores = Cardinality(CoreLines)
                    /\ DOMAIN resp[r].body = { "processor", "cores", "timestamp" }
               ELSE resp[r].body = Fallback

\* a "model name" line without a colon makes the parse raise, and the
\* answer is the fallback
C6_Witness ==
    \E r \in Reqs :
        /\ IsSystemRequest(r) /\ Answered(r)
        /\ cpuinfo.readable /\ ~Parseable
        /\ resp[r].body = Fallback

\* C10 as stated: the processor is the trimmed text after the first colon
\* of the first "model name" line, and "Unknown" when there is none.
C10_FirstModelName ==
    \A r \in Reqs :
        IsSystemRequest(r) /\ Answered(r) /\ Parseable =>
            resp[r].body.processor =
                IF ModelNameEnds = {} THEN Unknown
                ELSE Strip(AfterFirstColon(FirstModelNameLine))

\* C10 amended: the processor is the trimmed text between the first colon
\* and the next colon (or the end of the line) of the last "model name"
\* line, and "Unknown" when there is none.
C10_LastModelName ==
    \A r \in Reqs :
        IsSystemRequest(r) /\ Answered(r) /\ Parseable =>
            resp[r].body.processor =
                IF ModelNameEnds = {} THEN Unknown
                ELSE Strip(UpToNextColon(AfterFirstColon(LastModelNameLine)))

\* two "model name" lines that name different processors
C10_Witness ==
    \E r \in Reqs :
        /\ IsSystemRequest(r) /\ Answered(r) /\ Parseable
        /\ Cardinality(ModelNameEnds) >= 2
        /\ Strip(UpToNextColon(AfterFirstColon(FirstModelNameLine)))
             # Strip(UpToNextColon(AfterFirstColon(LastModelNameLine)))
        /\ resp[r].body.processor
             = Strip(UpToNextColon(AfterFirstColon(LastModelNameLine)))
        /\ resp[r].body.processor = CortexA72

(***************************************************************************)
(* Properties of POST /api/run-benchmark and of the server loop.           *)
(***************************************************************************)
IsTrigger(r) == req[r].method = "POST" /\ req[r].path = RunBenchmarkPath

\* the body is a JSON object, read off its tokens
IsObjectBody(body) ==
    /\ Len(body) >= 2
    /\ body[1] = Punct("{")
    /\ body[Len(body)] = Punct("}")

\* the request carries a Content-Length and a JSON object
HasJsonBody(r) == IsTrigger(r) /\ req[r].hasLength /\ IsObjectBody(req[r].body)

\* the body's "type" member, "baseline" when it has none
TypeOf(body) ==
    IF \E i \in 1..(Len(body) - 2) : body[i] = Str("type") /\ body[i + 1] = Punct(":")
    THEN body[(CHOOSE i \in 1..(Len(body) - 2) :
                   body[i] = Str("type") /\ body[i + 1] = Punct(":")) + 2].v
    ELSE "baseline"

Started(type) ==
    [kind |-> "http", code |-> 200, ctype |-> "application/json", cors |-> "*",
     body |-> [status |-> "started", type |-> type]]

ChildRunning(r) == thread[r] = "child"

HasNoJsonBody(r) == IsTrigger(r) /\ (~req[r].hasLength \/ ~JsonLoads(req[r].body).ok)

\* C2: a POST to /api/run-benchmark whose body is absent, empty or not JSON
\* is answered 200 "started" with type "baseline" (or 400): it never ends
\* without an HTTP response.
C2_NoBodyStillAnswered ==
    \A r \in Reqs :
        HasNoJsonBody(r) /\ Ended(r) =>
            /\ Answered(r)
            /\ resp[r] = Started("baseline") \/ resp[r].code = 400

\* C7: without the script no child is ever launched and the acknowledgement
\* is the same; with it at most one child is launched per request, and the
\* command is the fixed script whatever the type.
C7_FixedScriptAtMostOnce ==
    \A r \in Reqs :
        /\ ~scriptExists => launched[r] = << >>
        /\ Len(launched[r]) <= 1
        /\ \A i \in 1..Len(launched[r]) :
               launched[r][i] = << "bash", "scripts/03/run-baseline.sh" >>
        /\ thread[r] # "none" => resp[r] = Started(TypeOf(req[r].body))
        /\ thread[r] \in { "child", "failed" } => Len(launched[r]) = 1
        /\ thread[r] = "done" /\ scriptExists => Len(launched[r]) = 1

\* the script is missing, the thread has run and ended, nothing was launched
\* and the client has its acknowledgement
C7_Witness ==
    \E r \in Reqs :
        /\ ~scriptExists
        /\ HasJsonBody(r)
        /\ thread[r] = "done"
        /\ launched[r] = << >>
        /\ resp[r] = Started(TypeOf(req[r].body))

C9_WorkerPerConnection ==
    backlog # << >> => ENABLED Accept

====
